---------------------------- MODULE Spec2Model ----------------------------
(***************************************************************************)
(* dns.asyncquery: one call of udp, tcp, tls or udp_with_fallback, run     *)
(* against a transport (datagram and stream sockets made by a backend)     *)
(* and a peer that are both nondeterministic.  Every socket operation the  *)
(* call makes is appended to the log ops, with the timeout it was passed;  *)
(* so are the entries into udp and tcp and the decoding of a wire.         *)
(***************************************************************************)
EXTENDS Integers, Sequences, FiniteSets, TLC

VARIABLES call, now, pc, socks, ops, net, udpF, tcpF, tlsF, result

vars == <<call, now, pc, socks, ops, net, udpF, tcpF, tlsF, result>>

(***************************************************************************)
(* Bounds of the model.                                                    *)
(***************************************************************************)
\* the datagrams the peers deliver to one receive_udp loop
MaxDatagrams == 2
\* the longest time one completing socket operation takes
MaxDelay == 1
\* the finite timeout the caller passes (besides None and 0)
SomeTimeout == 8
\* the wall clock when the call starts
StartTime == 1

(***************************************************************************)
(* Values.                                                                 *)
(***************************************************************************)
\* Python's None for a time, a timeout or a count
None == -1
\* Python's None for a socket; the caller's two sockets
NoSock == 0
CallerDgram == 1
CallerStream == 2
\* Python's None for an address or a host name
NoAddr == "None"
NoHost == "None"
\* a local variable that was never assigned (destination, line 201)
Unbound == <<>>

Min(a, b) == IF a < b THEN a ELSE b
Max(a, b) == IF a > b THEN a ELSE b

\* Python truth of a number or None: None and 0 are false
Truthy(x) == x # None /\ x # 0

(***************************************************************************)
(* Addresses (dns.inet, dns.asyncbackend).                                 *)
(***************************************************************************)
Unicast4 == "10.0.0.1"
Multicast4 == "224.0.0.251"
Unicast6 == "2001:db8::1"
Multicast6 == "ff02::fb"
Stranger4 == "10.0.0.9"
Stranger6 == "fe80::9"
Wheres == {Unicast4, Multicast4, Unicast6, Multicast6}

af_for_address(a) == IF a \in {Unicast4, Multicast4, Stranger4} THEN "AF_INET" ELSE "AF_INET6"

is_multicast(a) == a \in {Multicast4, Multicast6}

\* low_level_address_tuple: (address, port) for IPv4, (address, port,
\* flowinfo, scope id) for IPv6
lltuple(af, high) == IF af = "AF_INET" THEN high ELSE high \o <<0, 0>>

\* dns.query._addresses_equal: the same address and the same rest
addresses_equal(af, a1, a2) == a1 = a2

\* Python's t[1:]
Rest(t) == SubSeq(t, 2, Len(t))

(***************************************************************************)
(* Messages (dns.message): a wire is a sequence of bytes, <<id, flags>>    *)
(* being the header.                                                       *)
(***************************************************************************)
QueryId == 7
OtherId == 9
HeaderLen == 2
FlagTC == 1

\* q.to_wire()
QueryWire == <<QueryId, 0>>

\* what a peer may send: replies with the query's id or another, with the
\* truncation bit or without, and two malformed ones
Wires == {<<i, f>> : i \in {QueryId, OtherId}, f \in {0, FlagTC}} \cup {<<QueryId>>, <<>>}

NoMsg == [id |-> 0, tc |-> FALSE, time |-> None]

\* dns.message.from_wire: [exc, r]
from_wire(wire, raise_on_truncation) ==
    IF Len(wire) < HeaderLen THEN [exc |-> "FormError", r |-> NoMsg]
    ELSE IF wire[2] = FlagTC /\ raise_on_truncation THEN [exc |-> "Truncated", r |-> NoMsg]
    ELSE [exc |-> "none", r |-> [id |-> wire[1], tc |-> (wire[2] = FlagTC), time |-> None]]

\* q.is_response(r)
is_response(r) == r.id = QueryId

(***************************************************************************)
(* _source_tuple, lines 41-54: [exc, t]; no tuple is <<>>                  *)
(***************************************************************************)
source_tuple(af, address, port) ==
    IF address # NoAddr \/ port # 0
    THEN IF address = NoAddr
         THEN IF af = "AF_INET" THEN [exc |-> "none", t |-> <<"0.0.0.0", port>>]
              ELSE IF af = "AF_INET6" THEN [exc |-> "none", t |-> <<"::", port>>]
              ELSE [exc |-> "NotImplementedError", t |-> <<>>]
         ELSE [exc |-> "none", t |-> <<address, port>>]
    ELSE [exc |-> "none", t |-> <<>>]

(***************************************************************************)
(* _timeout, lines 57-63, with time.time() = clock                         *)
(***************************************************************************)
timeout_(expiration, given, clock) ==
    IF Truthy(expiration)
    THEN LET n == IF ~Truthy(given) THEN clock ELSE given
         IN  Max(expiration - n, 0)
    ELSE None

\* dns.query._compute_times
compute_times(timeout, clock) ==
    <<clock, IF timeout = None THEN None ELSE clock + timeout>>

(***************************************************************************)
(* The transport.  Within one call every socket operation that completes   *)
(* takes the same time, net.latency.  An operation passed the timeout tmo  *)
(* completes if that is less than tmo and fails with Timeout after tmo if  *)
(* not; it may also fail with Timeout because the peer is slow.  With no   *)
(* timeout it completes, except that a recvfrom or a recv may then wait    *)
(* for ever for a peer that sends nothing: pc = "blocked".                 *)
(***************************************************************************)
Latencies == {0, MaxDelay}

IoOutcomes(tmo) ==
    IF tmo = None THEN {[ok |-> TRUE, d |-> net.latency]}
    ELSE {[ok |-> TRUE, d |-> d] : d \in {x \in {net.latency} : x < tmo}} \cup {[ok |-> FALSE, d |-> tmo]}

Op(op, sock, tmo, data, peer) ==
    [op |-> op, sock |-> sock, tmo |-> tmo, at |-> now, data |-> data, peer |-> peer]

\* a socket as the backend made it
Socket(type, owner, af, tmo, ctx, host, connected) ==
    [type |-> type, owner |-> owner, af |-> af, ctimeout |-> tmo,
     ssl_context |-> ctx, server_hostname |-> host, connected |-> connected]

NoCtx == [kind |-> "None", check_hostname |-> FALSE]
UserCtx == [kind |-> "user", check_hostname |-> TRUE]

\* the addresses a datagram sent to dest may come from: the destination, a
\* stranger on the same port (for IPv6 also with another scope id) and a
\* stranger on another port
FromAddrs(dest) ==
    IF Len(dest) = 2
    THEN {dest, <<Stranger4, dest[2]>>, <<Stranger4, dest[2] + 1>>}
    ELSE {dest, <<Stranger6, dest[2], 0, 0>>, <<Stranger6, dest[2], 0, 2>>,
          <<Stranger6, dest[2] + 1, 0, 0>>}

\* the recvfrom calls made so far
Received == Cardinality({i \in DOMAIN ops : ops[i].op = "recvfrom"})

(***************************************************************************)
(* The calls.                                                              *)
(***************************************************************************)
DefaultPort(api) == IF api = "tls" THEN 853 ELSE 53

Timeouts == {None, 0, SomeTimeout}

SourceAddr == "192.0.2.7"
SourcePort == 5300
Sources == {<<NoAddr, 0>>, <<NoAddr, SourcePort>>, <<SourceAddr, 0>>}
HostName == "dns.example"

\* the parameters that do not matter to the function called keep their
\* defaults, and the parameters are varied a group at a time
ValidCall(c) ==
    /\ c.api # "tls" => c.ssl_context = NoCtx /\ c.server_hostname = NoHost
    /\ c.api \notin {"udp", "udp_with_fallback"} => ~c.ignore_unexpected
    /\ c.api # "udp" => ~c.raise_on_truncation
    /\ c.api # "udp_with_fallback" => c.tcp_sock = NoSock
    /\ c.sock \in (IF c.api \in {"udp", "udp_with_fallback"} THEN {NoSock, CallerDgram}
                                                               ELSE {NoSock, CallerStream})
    /\ ~c.connected => CallerStream \in {c.sock, c.tcp_sock}
    /\ c.source # <<NoAddr, 0>> =>
          /\ c.where \in {Unicast4, Unicast6} /\ c.timeout = SomeTimeout
          /\ ~c.ignore_unexpected /\ c.sock = NoSock /\ c.tcp_sock = NoSock
          /\ c.ssl_context = NoCtx /\ c.server_hostname = NoHost
    /\ c.ignore_unexpected => c.timeout # 0
    /\ c.api = "tls" => c.where \in {Unicast4, Unicast6}

Calls ==
    {c \in [api : {"udp", "tcp", "tls", "udp_with_fallback"}, where : Wheres,
            timeout : Timeouts, source : Sources, ignore_unexpected : BOOLEAN,
            raise_on_truncation : BOOLEAN, sock : {NoSock, CallerDgram, CallerStream},
            tcp_sock : {NoSock, CallerStream}, ssl_context : {NoCtx, UserCtx},
            server_hostname : {NoHost, HostName}, connected : BOOLEAN] : ValidCall(c)}

NoFrame == [sock |-> NoSock, s |-> NoSock, timeout |-> None, begin_time |-> None,
            expiration |-> None, destination |-> Unbound, wire |-> <<>>,
            from |-> <<>>, count |-> 0, buf |-> <<>>, raise_on_truncation |-> FALSE,
            received_time |-> None, exc |-> "none", r |-> NoMsg]

NoTls == [sock |-> NoSock, s |-> NoSock, exc |-> "none", r |-> NoMsg]

NoResult == [exc |-> "none", r |-> NoMsg, tcp |-> FALSE]

Init ==
    /\ call \in Calls
    /\ now = StartTime
    /\ pc = "start"
    /\ socks = <<Socket("DGRAM", "caller", "AF_INET", None, NoCtx, NoHost, TRUE),
                 Socket("STREAM", "caller", "AF_INET", None, NoCtx, NoHost, call.connected)>>
    /\ ops = <<>>
    /\ net \in [latency : Latencies, inbuf : {<<>>}, closed : {FALSE}]
    /\ udpF = NoFrame
    /\ tcpF = NoFrame
    /\ tlsF = NoTls
    /\ result = NoResult

(***************************************************************************)
(* The top-level call.                                                     *)
(***************************************************************************)
\* udp_with_fallback's call of udp, lines 266-268
FallbackUdpArgs ==
    [NoFrame EXCEPT !.sock = call.sock, !.timeout = call.timeout,
                    !.raise_on_truncation = TRUE]

\* lines 271-273 with what is left of the timeout in place of the timeout
FallbackTcpArgs_remaining ==
    [NoFrame EXCEPT !.sock = call.tcp_sock,
                    !.timeout = timeout_(udpF.expiration, None, now)]

\* udp_with_fallback's call of tcp, lines 271-273
FallbackTcpArgs ==
    [NoFrame EXCEPT !.sock = call.tcp_sock, !.timeout = call.timeout]

\* tls's call of tcp, lines 492-493
TlsTcpArgs(s) ==
    [NoFrame EXCEPT !.sock = s, !.timeout = call.timeout]

Start ==
    /\ pc = "start"
    /\ pc' = CASE call.api = "tcp" -> "tcp_begin"
               [] call.api = "tls" -> "tls_open"
               [] OTHER -> "udp_begin"
    /\ udpF' = CASE call.api = "udp" ->
                      [NoFrame EXCEPT !.sock = call.sock, !.timeout = call.timeout,
                                      !.raise_on_truncation = call.raise_on_truncation]
                 [] call.api = "udp_with_fallback" -> FallbackUdpArgs
                 [] OTHER -> udpF
    /\ tcpF' = IF call.api = "tcp"
               THEN [NoFrame EXCEPT !.sock = call.sock, !.timeout = call.timeout]
               ELSE tcpF
    /\ tlsF' = IF call.api = "tls" THEN [NoTls EXCEPT !.sock = call.sock] ELSE tlsF
    /\ UNCHANGED <<call, now, socks, ops, net, result>>

(***************************************************************************)
(* udp, lines 189-215                                                      *)
(***************************************************************************)
\* lines 189-193
UdpBegin ==
    /\ pc = "udp_begin"
    /\ LET ct == compute_times(udpF.timeout, now)
       IN  udpF' = [udpF EXCEPT !.begin_time = ct[1], !.expiration = ct[2], !.s = NoSock]
    /\ ops' = Append(ops, Op("udp", udpF.sock, udpF.timeout, QueryWire, <<>>))
    /\ pc' = "udp_open"
    /\ UNCHANGED <<call, now, socks, net, tcpF, tlsF, result>>

\* lines 195-201: a socket of the caller is used as it is, else one is made
UdpOpen ==
    /\ pc = "udp_open"
    /\ IF udpF.sock # NoSock
       THEN /\ udpF' = [udpF EXCEPT !.s = udpF.sock]
            /\ pc' = "udp_send"
            /\ UNCHANGED <<socks, ops>>
       ELSE LET af == af_for_address(call.where)
                st == source_tuple(af, call.source[1], call.source[2])
                id == Len(socks) + 1
            IN  IF st.exc # "none"
                THEN /\ udpF' = [udpF EXCEPT !.exc = st.exc]
                     /\ pc' = "udp_finally"
                     /\ UNCHANGED <<socks, ops>>
                ELSE \/ /\ socks' = Append(socks, Socket("DGRAM", "core", af, None, NoCtx, NoHost, FALSE))
                        /\ ops' = Append(ops, Op("make_socket", id, None, <<>>, st.t))
                        /\ udpF' = [udpF EXCEPT !.s = id,
                                      !.destination = lltuple(af, <<call.where, DefaultPort(call.api)>>)]
                        /\ pc' = "udp_send"
                     \/ /\ udpF' = [udpF EXCEPT !.exc = "OSError"]
                        /\ pc' = "udp_finally"
                        /\ UNCHANGED <<socks, ops>>
    /\ UNCHANGED <<call, now, net, tcpF, tlsF, result>>

\* line 202 and send_udp, lines 83-87
UdpSend ==
    /\ pc = "udp_send"
    /\ IF udpF.destination = Unbound
       THEN /\ udpF' = [udpF EXCEPT !.exc = "UnboundLocalError"]
            /\ pc' = "udp_finally"
            /\ UNCHANGED <<now, ops>>
       ELSE LET sent_time == now
                tmo == timeout_(udpF.expiration, sent_time, now)
            IN  \E o \in IoOutcomes(tmo) :
                  /\ ops' = Append(ops, Op("sendto", udpF.s, tmo, QueryWire, udpF.destination))
                  /\ now' = now + o.d
                  /\ udpF' = [udpF EXCEPT !.exc = IF o.ok THEN "none" ELSE "Timeout"]
                  /\ pc' = IF o.ok THEN "udp_recv" ELSE "udp_finally"
    /\ UNCHANGED <<call, socks, net, tcpF, tlsF, result>>

\* the test of lines 130-132
udp_accepts(family, from_address, destination) ==
    \/ addresses_equal(family, from_address, destination)
    \/ (is_multicast(destination[1]) /\ Rest(from_address) = Rest(destination))

\* lines 130-137 with the wire decoded whatever its source, when unexpected
\* sources are ignored
udp_next_decode_all(accepts, ignore_unexpected) ==
    IF accepts \/ ignore_unexpected THEN "udp_decode" ELSE "udp_finally"

\* lines 130-137: break, raise UnexpectedSource, or go round the loop again
udp_next(accepts, ignore_unexpected) ==
    IF accepts THEN "udp_decode"
    ELSE IF ~ignore_unexpected THEN "udp_finally"
    ELSE "udp_recv"

\* the timeout recvfrom is passed, line 129: none
recvfrom_timeout(expiration, clock) == None

\* one turn of the loop of receive_udp, lines 128-137: a datagram arrives
\* (the peers deliver MaxDatagrams at most), or recvfrom times out, or,
\* passed no timeout, it waits for a datagram that never comes
UdpRecv ==
    /\ pc = "udp_recv"
    /\ LET tmo == recvfrom_timeout(udpF.expiration, now)
       IN  \/ /\ Received < MaxDatagrams
              /\ \E o \in IoOutcomes(tmo), wire \in Wires, from_address \in FromAddrs(udpF.destination) :
                   /\ o.ok
                   /\ now' = now + o.d
                   /\ ops' = Append(ops, Op("recvfrom", udpF.s, tmo, <<>>, from_address))
                   /\ LET accepts == udp_accepts(socks[udpF.s].af, from_address, udpF.destination)
                      IN  /\ udpF' = [udpF EXCEPT !.wire = wire, !.from = from_address,
                                         !.exc = IF accepts \/ call.ignore_unexpected
                                                 THEN "none" ELSE "UnexpectedSource"]
                          /\ pc' = udp_next(accepts, call.ignore_unexpected)
           \/ /\ tmo # None
              /\ now' = now + tmo
              /\ ops' = Append(ops, Op("recvfrom", udpF.s, tmo, <<>>, <<>>))
              /\ udpF' = [udpF EXCEPT !.exc = "Timeout"]
              /\ pc' = "udp_finally"
           \/ /\ tmo = None
              /\ ops' = Append(ops, Op("recvfrom", udpF.s, tmo, <<>>, <<>>))
              /\ pc' = "blocked"
              /\ UNCHANGED <<now, udpF>>
    /\ UNCHANGED <<call, socks, net, tcpF, tlsF, result>>

\* lines 209 and 416 with the two times the other way round
reply_time_reversed(received_time, begin_time) == begin_time - received_time

\* lines 209 and 416: r.time
reply_time(received_time, begin_time) == received_time - begin_time

\* lines 139-142 and 347-349 without lines 210-211 and 417-418: whatever
\* decodes is returned
reply_exc_unchecked(wire, raise_on_truncation) == from_wire(wire, raise_on_truncation).exc

\* the reply is matched with the query before the truncation bit is looked at
reply_exc_match_first(wire, raise_on_truncation) ==
    LET m == from_wire(wire, FALSE)
    IN  IF m.exc # "none" THEN m.exc
        ELSE IF ~is_response(m.r) THEN "BadResponse"
        ELSE from_wire(wire, raise_on_truncation).exc

\* lines 139-142 and 210-211, lines 347-349 and 417-418: the exception of
\* from_wire, and BadResponse for a message that is no response to the query
reply_exc(wire, raise_on_truncation) ==
    LET m == from_wire(wire, raise_on_truncation)
    IN  IF m.exc # "none" THEN m.exc
        ELSE IF ~is_response(m.r) THEN "BadResponse"
        ELSE "none"

\* lines 138-143 and 209-212
UdpDecode ==
    /\ pc = "udp_decode"
    /\ LET received_time == now
           m == from_wire(udpF.wire, udpF.raise_on_truncation)
           r == [m.r EXCEPT !.time = reply_time(received_time, udpF.begin_time)]
           exc == reply_exc(udpF.wire, udpF.raise_on_truncation)
       IN  /\ ops' = Append(ops, Op("from_wire", udpF.s, None, udpF.wire, udpF.from))
           /\ udpF' = IF exc # "none"
                      THEN [udpF EXCEPT !.received_time = received_time, !.exc = exc]
                      ELSE [udpF EXCEPT !.received_time = received_time, !.r = r]
    /\ pc' = "udp_finally"
    /\ UNCHANGED <<call, now, socks, net, tcpF, tlsF, result>>

\* lines 213-215 left out: udp leaves its socket open
udp_closes_never(sock, s) == FALSE

\* line 214 without the test of sock: the socket of the caller is closed too
udp_closes_any(sock, s) == s # NoSock

\* line 214
udp_closes(sock, s) == sock = NoSock /\ s # NoSock

\* lines 213-215, and the return to the caller
UdpFinally ==
    /\ pc = "udp_finally"
    /\ ops' = IF udp_closes(udpF.sock, udpF.s)
              THEN Append(ops, Op("close", udpF.s, None, <<>>, <<>>))
              ELSE ops
    /\ IF call.api = "udp"
       THEN /\ pc' = "done"
            /\ result' = [exc |-> udpF.exc, r |-> udpF.r, tcp |-> FALSE]
       ELSE /\ pc' = "fb_after_udp"
            /\ UNCHANGED result
    /\ UNCHANGED <<call, now, socks, net, udpF, tcpF, tlsF>>

(***************************************************************************)
(* udp_with_fallback, lines 265-274                                        *)
(***************************************************************************)
\* line 270 catching Timeout as well
is_truncated_or_timeout(exc) == exc \in {"Truncated", "Timeout"}

\* the except clause of line 270
is_truncated(exc) == exc = "Truncated"

\* lines 269-271: the reply of udp is returned, Truncated starts tcp, any
\* other exception goes to the caller
FbAfterUdp ==
    /\ pc = "fb_after_udp"
    /\ IF udpF.exc = "none"
       THEN /\ result' = [exc |-> "none", r |-> udpF.r, tcp |-> FALSE]
            /\ pc' = "done"
            /\ UNCHANGED tcpF
       ELSE IF is_truncated(udpF.exc)
       THEN /\ tcpF' = FallbackTcpArgs
            /\ pc' = "tcp_begin"
            /\ UNCHANGED result
       ELSE /\ result' = [exc |-> udpF.exc, r |-> NoMsg, tcp |-> FALSE]
            /\ pc' = "done"
            /\ UNCHANGED tcpF
    /\ UNCHANGED <<call, now, socks, ops, net, udpF, tlsF>>

\* line 274, or the exception of tcp going to the caller
FbAfterTcp ==
    /\ pc = "fb_after_tcp"
    /\ result' = IF tcpF.exc = "none"
                 THEN [exc |-> "none", r |-> tcpF.r, tcp |-> TRUE]
                 ELSE [exc |-> tcpF.exc, r |-> NoMsg, tcp |-> FALSE]
    /\ pc' = "done"
    /\ UNCHANGED <<call, now, socks, ops, net, udpF, tcpF, tlsF>>

(***************************************************************************)
(* tcp, lines 391-422                                                      *)
(***************************************************************************)
\* struct.pack("<H", l): the low byte first
pack_le(l) == <<l % 256, l \div 256>>

\* struct.pack("!H", l) and struct.unpack("!H", ldata)
pack(l) == <<l \div 256, l % 256>>
unpack(ldata) == ldata[1] * 256 + ldata[2]

Prefixes(seq) == {SubSeq(seq, 1, n) : n \in 0..Len(seq)}

\* what the peer sends on the stream: a frame or the beginning of one, after
\* which it closes the stream or stays silent
Streams ==
    {[latency |-> net.latency, inbuf |-> b, closed |-> c] :
        b \in UNION {Prefixes(pack(Len(w)) \o w) : w \in Wires}, c \in BOOLEAN}

\* lines 391-395
TcpBegin ==
    /\ pc = "tcp_begin"
    /\ LET ct == compute_times(tcpF.timeout, now)
       IN  tcpF' = [tcpF EXCEPT !.begin_time = ct[1], !.expiration = ct[2], !.s = NoSock]
    /\ ops' = Append(ops, Op("tcp", tcpF.sock, tcpF.timeout, QueryWire, <<>>))
    /\ pc' = "tcp_open"
    /\ UNCHANGED <<call, now, socks, net, udpF, tlsF, result>>

\* lines 397-402 without line 401: the socket of the caller is used unasked
TcpUseSock_unchecked ==
    /\ tcpF' = [tcpF EXCEPT !.s = tcpF.sock]
    /\ pc' = "tcp_send"
    /\ UNCHANGED <<now, socks, ops>>

\* lines 397-402: a socket of the caller is asked for its peer, which fails
\* if it is not connected
TcpUseSock ==
    /\ ops' = Append(ops, Op("getpeername", tcpF.sock, None, <<>>, <<>>))
    /\ IF socks[tcpF.sock].connected
       THEN /\ tcpF' = [tcpF EXCEPT !.s = tcpF.sock]
            /\ pc' = "tcp_send"
       ELSE /\ tcpF' = [tcpF EXCEPT !.exc = "OSError"]
            /\ pc' = "tcp_finally"
    /\ UNCHANGED <<now, socks>>

\* lines 403-411: a connected socket is made within the timeout
TcpMakeSock ==
    LET af == af_for_address(call.where)
        st == source_tuple(af, call.source[1], call.source[2])
        dtuple == <<call.where, DefaultPort(call.api)>>
        id == Len(socks) + 1
    IN  IF st.exc # "none"
        THEN /\ tcpF' = [tcpF EXCEPT !.exc = st.exc]
             /\ pc' = "tcp_finally"
             /\ UNCHANGED <<now, socks, ops>>
        ELSE \/ \E o \in IoOutcomes(tcpF.timeout) :
                  /\ now' = now + o.d
                  /\ IF o.ok
                     THEN /\ socks' = Append(socks, Socket("STREAM", "core", af,
                                               tcpF.timeout, NoCtx, NoHost, TRUE))
                          /\ ops' = Append(ops, Op("make_socket", id, tcpF.timeout, <<>>, dtuple))
                          /\ tcpF' = [tcpF EXCEPT !.s = id]
                          /\ pc' = "tcp_send"
                     ELSE /\ tcpF' = [tcpF EXCEPT !.exc = "Timeout"]
                          /\ pc' = "tcp_finally"
                          /\ UNCHANGED <<socks, ops>>
             \/ /\ tcpF' = [tcpF EXCEPT !.exc = "OSError"]
                /\ pc' = "tcp_finally"
                /\ UNCHANGED <<now, socks, ops>>

\* lines 396-411
TcpOpen ==
    /\ pc = "tcp_open"
    /\ IF tcpF.sock # NoSock THEN TcpUseSock ELSE TcpMakeSock
    /\ UNCHANGED <<call, net, udpF, tlsF, result>>

\* the timeout sendall is passed, line 299: the expiration itself
sendall_timeout(expiration, clock) == expiration

\* line 412 and send_tcp, lines 291-300; the peer then answers
TcpSend ==
    /\ pc = "tcp_send"
    /\ LET tcpmsg == pack(Len(QueryWire)) \o QueryWire
           tmo == sendall_timeout(tcpF.expiration, now)
       IN  \E o \in IoOutcomes(tmo) :
             /\ ops' = Append(ops, Op("sendall", tcpF.s, tmo, tcpmsg, <<>>))
             /\ now' = now + o.d
             /\ IF o.ok
                THEN /\ tcpF' = [tcpF EXCEPT !.count = 2, !.buf = <<>>]
                     /\ pc' = "tcp_read_len"
                     /\ net' \in Streams
                ELSE /\ tcpF' = [tcpF EXCEPT !.exc = "Timeout"]
                     /\ pc' = "tcp_finally"
                     /\ UNCHANGED net
    /\ UNCHANGED <<call, socks, udpF, tlsF, result>>

\* the timeout recv is passed, line 309
recv_timeout(expiration, clock) == timeout_(expiration, None, clock)

\* lines 343-345: the two bytes of the length are read, and then a wire of
\* length 0 is read without a recv
TcpReadLenDone(ldata) ==
    LET l == unpack(ldata)
    IN  IF l > 0
        THEN /\ tcpF' = [tcpF EXCEPT !.count = l, !.buf = <<>>]
             /\ pc' = "tcp_read_wire"
        ELSE /\ tcpF' = [tcpF EXCEPT !.count = 0, !.buf = <<>>, !.wire = <<>>]
             /\ pc' = "tcp_decode"

\* line 345: the wire is read
TcpReadWireDone(wire) ==
    /\ tcpF' = [tcpF EXCEPT !.count = 0, !.buf = <<>>, !.wire = wire]
    /\ pc' = "tcp_decode"

\* what recv(count) returns when it completes: some of the bytes that are
\* there, count at most, or nothing at the end of a closed stream
Recvs(count) ==
    IF net.inbuf = <<>>
    THEN IF net.closed THEN {<<>>} ELSE {}
    ELSE {SubSeq(net.inbuf, 1, k) : k \in 1..Min(count, Len(net.inbuf))}

\* line 309 asking for a buffer full whatever is missing
recv_size_buffer(count) == 65535

\* line 309: the bytes recv is asked for are those still missing
recv_size(count) == count

\* line 311 left out: an empty read is taken for a read
read_eof_never(n) == FALSE

\* line 311
read_eof(n) == n = <<>>

\* one turn of the loop of _read_exactly, lines 308-313; a recv that is
\* passed no timeout waits for ever for a peer that is silent
ReadTurn ==
    /\ tcpF.count > 0
    /\ LET tmo == recv_timeout(tcpF.expiration, now)
       IN  \/ \E o \in IoOutcomes(tmo) :
                /\ now' = now + o.d
                /\ IF ~o.ok
                   THEN /\ ops' = Append(ops, Op("recv", tcpF.s, tmo, <<>>, <<>>))
                        /\ tcpF' = [tcpF EXCEPT !.exc = "Timeout"]
                        /\ pc' = "tcp_finally"
                        /\ UNCHANGED net
                   ELSE \E n \in Recvs(recv_size(tcpF.count)) :
                          LET count == tcpF.count - Len(n)
                              buf == tcpF.buf \o n
                          IN  /\ ops' = Append(ops, Op("recv", tcpF.s, tmo, n, <<>>))
                              /\ net' = [net EXCEPT !.inbuf = SubSeq(net.inbuf, Len(n) + 1, Len(net.inbuf))]
                              /\ IF read_eof(n)
                                 THEN /\ tcpF' = [tcpF EXCEPT !.exc = "EOFError"]
                                      /\ pc' = "tcp_finally"
                                 ELSE IF count > 0
                                 THEN /\ tcpF' = [tcpF EXCEPT !.count = count, !.buf = buf]
                                      /\ UNCHANGED pc
                                 ELSE IF pc = "tcp_read_len"
                                 THEN TcpReadLenDone(buf)
                                 ELSE TcpReadWireDone(buf)
           \/ /\ tmo = None /\ net.inbuf = <<>> /\ ~net.closed
              /\ ops' = Append(ops, Op("recv", tcpF.s, tmo, <<>>, <<>>))
              /\ pc' = "blocked"
              /\ UNCHANGED <<now, net, tcpF>>

\* line 343
TcpReadLen ==
    /\ pc = "tcp_read_len"
    /\ ReadTurn
    /\ UNCHANGED <<call, socks, udpF, tlsF, result>>

\* line 345
TcpReadWire ==
    /\ pc = "tcp_read_wire"
    /\ ReadTurn
    /\ UNCHANGED <<call, socks, udpF, tlsF, result>>

\* lines 346-350 and 416-419
TcpDecode ==
    /\ pc = "tcp_decode"
    /\ LET received_time == now
           m == from_wire(tcpF.wire, FALSE)
           r == [m.r EXCEPT !.time = reply_time(received_time, tcpF.begin_time)]
           exc == reply_exc(tcpF.wire, FALSE)
       IN  /\ ops' = Append(ops, Op("from_wire", tcpF.s, None, tcpF.wire, <<>>))
           /\ tcpF' = IF exc # "none"
                      THEN [tcpF EXCEPT !.received_time = received_time, !.exc = exc]
                      ELSE [tcpF EXCEPT !.received_time = received_time, !.r = r]
    /\ pc' = "tcp_finally"
    /\ UNCHANGED <<call, now, socks, net, udpF, tlsF, result>>

\* line 421 without the test of sock: tcp closes the socket tls made
tcp_closes_any(sock, s) == s # NoSock

\* line 421
tcp_closes(sock, s) == sock = NoSock /\ s # NoSock

\* lines 420-422, and the return to the caller
TcpFinally ==
    /\ pc = "tcp_finally"
    /\ ops' = IF tcp_closes(tcpF.sock, tcpF.s)
              THEN Append(ops, Op("close", tcpF.s, None, <<>>, <<>>))
              ELSE ops
    /\ CASE call.api = "tcp" ->
              /\ pc' = "done"
              /\ result' = [exc |-> tcpF.exc, r |-> tcpF.r, tcp |-> FALSE]
              /\ UNCHANGED tlsF
         [] call.api = "tls" ->
              /\ pc' = "tls_finally"
              /\ tlsF' = [tlsF EXCEPT !.exc = tcpF.exc, !.r = tcpF.r]
              /\ UNCHANGED result
         [] OTHER ->
              /\ pc' = "fb_after_tcp"
              /\ UNCHANGED <<tlsF, result>>
    /\ UNCHANGED <<call, now, socks, net, udpF, tcpF>>

(***************************************************************************)
(* tls, lines 470-496                                                      *)
(***************************************************************************)
\* ssl.create_default_context()
DefaultCtx == [kind |-> "default", check_hostname |-> TRUE]

\* lines 473-479 without line 476: the default context keeps checking
tls_context_checking(ssl_context, server_hostname) ==
    IF ssl_context = NoCtx THEN <<DefaultCtx, server_hostname>> ELSE <<NoCtx, NoHost>>

\* lines 473-479: the context and the host name make_socket is passed
tls_context(ssl_context, server_hostname) ==
    IF ssl_context = NoCtx
    THEN <<IF server_hostname = NoHost
           THEN [DefaultCtx EXCEPT !.check_hostname = FALSE]
           ELSE DefaultCtx,
           server_hostname>>
    ELSE <<NoCtx, NoHost>>

\* lines 472-487 and the call of tcp, lines 492-493
TlsOpen ==
    /\ pc = "tls_open"
    /\ IF tlsF.sock = NoSock
       THEN LET ch == tls_context(call.ssl_context, call.server_hostname)
                af == af_for_address(call.where)
                st == source_tuple(af, call.source[1], call.source[2])
                dtuple == <<call.where, DefaultPort(call.api)>>
                id == Len(socks) + 1
            IN  IF st.exc # "none"
                THEN /\ result' = [exc |-> st.exc, r |-> NoMsg, tcp |-> FALSE]
                     /\ pc' = "done"
                     /\ UNCHANGED <<now, socks, ops, tlsF, tcpF>>
                ELSE \/ \E o \in IoOutcomes(call.timeout) :
                          /\ now' = now + o.d
                          /\ IF o.ok
                             THEN /\ socks' = Append(socks, Socket("STREAM", "core", af,
                                                       call.timeout, ch[1], ch[2], TRUE))
                                  /\ ops' = Append(ops, Op("make_socket", id, call.timeout, <<>>, dtuple))
                                  /\ tlsF' = [tlsF EXCEPT !.s = id]
                                  /\ tcpF' = TlsTcpArgs(id)
                                  /\ pc' = "tcp_begin"
                                  /\ UNCHANGED result
                             ELSE /\ result' = [exc |-> "Timeout", r |-> NoMsg, tcp |-> FALSE]
                                  /\ pc' = "done"
                                  /\ UNCHANGED <<socks, ops, tlsF, tcpF>>
                     \/ /\ result' = [exc |-> "OSError", r |-> NoMsg, tcp |-> FALSE]
                        /\ pc' = "done"
                        /\ UNCHANGED <<now, socks, ops, tlsF, tcpF>>
       ELSE /\ tlsF' = [tlsF EXCEPT !.s = tlsF.sock]
            /\ tcpF' = TlsTcpArgs(tlsF.sock)
            /\ pc' = "tcp_begin"
            /\ UNCHANGED <<now, socks, ops, result>>
    /\ UNCHANGED <<call, net, udpF>>

\* line 495
tls_closes(sock, s) == sock = NoSock /\ s # NoSock

\* lines 494-496
TlsFinally ==
    /\ pc = "tls_finally"
    /\ ops' = IF tls_closes(tlsF.sock, tlsF.s)
              THEN Append(ops, Op("close", tlsF.s, None, <<>>, <<>>))
              ELSE ops
    /\ result' = [exc |-> tlsF.exc, r |-> tlsF.r, tcp |-> FALSE]
    /\ pc' = "done"
    /\ UNCHANGED <<call, now, socks, net, udpF, tcpF, tlsF>>

Next ==
    \/ Start
    \/ UdpBegin
    \/ UdpOpen
    \/ UdpSend
    \/ UdpRecv
    \/ UdpDecode
    \/ UdpFinally
    \/ FbAfterUdp
    \/ FbAfterTcp
    \/ TcpBegin
    \/ TcpOpen
    \/ TcpSend
    \/ TcpReadLen
    \/ TcpReadWire
    \/ TcpDecode
    \/ TcpFinally
    \/ TlsOpen
    \/ TlsFinally

Spec == Init /\ [][Next]_vars

(***************************************************************************)
(* The framing of send_tcp and receive_tcp on its own: a message of up to  *)
(* MaxMessage bytes is sent on a stream whose peer sends it back and       *)
(* closes, and is read as receive_tcp reads it, in reads of any length.    *)
(* Byte strings are kept run-length encoded here, as sequences of runs     *)
(* <<byte, length>> with no two neighbours of the same byte.               *)
(***************************************************************************)
\* the longest message the two bytes of "!H" can announce, line 297
MaxMessage == 65535
\* the reads of up to this many bytes are all tried
SmallRead == 3

RECURSIVE RunLen(_)
\* len(s)
RunLen(s) == IF s = <<>> THEN 0 ELSE s[1][2] + RunLen(Tail(s))

\* a + b
RunCat(a, b) ==
    IF a = <<>> THEN b
    ELSE IF b = <<>> THEN a
    ELSE IF a[Len(a)][1] = b[1][1]
    THEN SubSeq(a, 1, Len(a) - 1) \o <<<<b[1][1], a[Len(a)][2] + b[1][2]>>>> \o Tail(b)
    ELSE a \o b

RECURSIVE RunTake(_, _)
\* s[:k]
RunTake(s, k) ==
    IF k = 0 \/ s = <<>> THEN <<>>
    ELSE IF s[1][2] <= k THEN <<s[1]>> \o RunTake(Tail(s), k - s[1][2])
    ELSE <<<<s[1][1], k>>>>

RECURSIVE RunDrop(_, _)
\* s[k:]
RunDrop(s, k) ==
    IF k = 0 \/ s = <<>> THEN s
    ELSE IF s[1][2] <= k THEN RunDrop(Tail(s), k - s[1][2])
    ELSE <<<<s[1][1], s[1][2] - k>>>> \o Tail(s)

RECURSIVE RunAt(_, _)
\* s[i - 1]
RunAt(s, i) == IF i <= s[1][2] THEN s[1][1] ELSE RunAt(Tail(s), i - s[1][2])

RECURSIVE Runs(_)
\* the runs of a sequence of bytes
Runs(seq) == IF seq = <<>> THEN <<>> ELSE RunCat(<<<<seq[1], 1>>>>, Runs(Tail(seq)))

FrameLengths == {0, 1, 2, 256, MaxMessage}

\* the messages sent: of one byte throughout, and beginning with the bytes
\* of a length
Messages ==
    {Runs(<<>>)} \cup {<<<<b, l>>>> : b \in {0, 255}, l \in FrameLengths \ {0}}
                \cup {<<<<255, 2>>, <<7, l - 2>>>> : l \in FrameLengths \ {0, 1, 2}}

FrameInit ==
    /\ call \in {[api |-> "frame", what |-> m] : m \in Messages}
    /\ now = StartTime
    /\ pc = "fr_send"
    /\ socks = <<Socket("DGRAM", "caller", "AF_INET", None, NoCtx, NoHost, TRUE),
                 Socket("STREAM", "caller", "AF_INET", None, NoCtx, NoHost, TRUE)>>
    /\ ops = <<>>
    /\ net = [latency |-> 0, inbuf |-> <<>>, closed |-> FALSE, short |-> FALSE]
    /\ udpF = NoFrame
    /\ tcpF = NoFrame
    /\ tlsF = NoTls
    /\ result = NoResult

\* send_tcp, lines 293-299; the peer sends the bytes back and closes
FrSend ==
    /\ pc = "fr_send"
    /\ LET what == call.what
           l == RunLen(what)
           tcpmsg == RunCat(Runs(pack(l)), what)
       IN  /\ ops' = Append(ops, Op("sendall", CallerStream, None, tcpmsg, <<>>))
           /\ net' = [net EXCEPT !.inbuf = tcpmsg, !.closed = TRUE]
    /\ tcpF' = [tcpF EXCEPT !.s = CallerStream, !.count = 2, !.buf = <<>>]
    /\ pc' = "fr_read_len"
    /\ UNCHANGED <<call, now, socks, udpF, tlsF, result>>

\* the lengths of what recv(count) may return
ReadSizes(count) ==
    {k \in (1..SmallRead) \cup {count \div 2, count} : k >= 1 /\ k <= Min(count, RunLen(net.inbuf))}

RECURSIVE Frames(_)
\* the frames of a sequence of messages, back to back
Frames(ms) ==
    IF ms = <<>> THEN <<>>
    ELSE RunCat(RunCat(Runs(pack(RunLen(ms[1]))), ms[1]), Frames(Tail(ms)))

\* lines 343-345: the length is unpacked, and a wire of length 0 is read
\* without a recv
FrReadLenDone(ldata) ==
    LET l == unpack(<<RunAt(ldata, 1), RunAt(ldata, 2)>>)
    IN  IF l > 0
        THEN /\ tcpF' = [tcpF EXCEPT !.count = l, !.buf = <<>>]
             /\ pc' = "fr_read_wire"
        ELSE /\ tcpF' = [tcpF EXCEPT !.count = 0, !.buf = <<>>, !.wire = <<>>]
             /\ pc' = "fr_done"

\* one turn of the loop of _read_exactly, lines 308-313
FrReadTurn ==
    /\ tcpF.count > 0
    /\ IF net.inbuf = <<>>
       THEN /\ tcpF' = [tcpF EXCEPT !.exc = "EOFError"]
            /\ pc' = "fr_done"
            /\ UNCHANGED net
       ELSE \E k \in ReadSizes(recv_size(tcpF.count)) :
              LET n == RunTake(net.inbuf, k)
                  count == tcpF.count - RunLen(n)
                  buf == RunCat(tcpF.buf, n)
              IN  /\ net' = [net EXCEPT !.inbuf = RunDrop(net.inbuf, k),
                                        !.short = net.short \/ k < tcpF.count]
                  /\ IF count > 0
                     THEN /\ tcpF' = [tcpF EXCEPT !.count = count, !.buf = buf]
                          /\ UNCHANGED pc
                     ELSE IF pc = "fr_read_len"
                     THEN FrReadLenDone(buf)
                     ELSE /\ tcpF' = [tcpF EXCEPT !.count = 0, !.buf = <<>>, !.wire = buf]
                          /\ pc' = "fr_done"

\* line 343
FrReadLen ==
    /\ pc = "fr_read_len"
    /\ FrReadTurn
    /\ UNCHANGED <<call, now, socks, ops, udpF, tlsF, result>>

\* line 345
FrReadWire ==
    /\ pc = "fr_read_wire"
    /\ FrReadTurn
    /\ UNCHANGED <<call, now, socks, ops, udpF, tlsF, result>>

FrameNext ==
    \/ FrSend
    \/ FrReadLen
    \/ FrReadWire

FrameSpec == FrameInit /\ [][FrameNext]_vars

(***************************************************************************)
(* Exchanges one after another on one stream socket of the caller: the     *)
(* replies stand on the stream back to back, and each exchange sends its   *)
(* query and reads a reply as receive_tcp reads it.                        *)
(***************************************************************************)
\* the exchanges made on the socket
MaxExchanges == 2
\* the longest reply
MaxReply == 256

Replies == {m \in Messages : RunLen(m) <= MaxReply}

RECURSIVE SeqsOf(_, _)
\* the sequences of n elements of S
SeqsOf(S, n) ==
    IF n = 0 THEN {<<>>} ELSE {Append(q, x) : q \in SeqsOf(S, n - 1), x \in S}

PipeInit ==
    /\ call \in {[api |-> "pipe", replies |-> q] :
                   q \in UNION {SeqsOf(Replies, n) : n \in 1..MaxExchanges}}
    /\ now = StartTime
    /\ pc = "fr_send"
    /\ socks = <<Socket("DGRAM", "caller", "AF_INET", None, NoCtx, NoHost, TRUE),
                 Socket("STREAM", "caller", "AF_INET", None, NoCtx, NoHost, TRUE)>>
    /\ ops = <<>>
    /\ net = [latency |-> 0, inbuf |-> Frames(call.replies), closed |-> TRUE, short |-> FALSE]
    /\ udpF = NoFrame
    /\ tcpF = NoFrame
    /\ tlsF = NoTls
    /\ result = NoResult

\* send_tcp, lines 293-299, with the query
PipeSend ==
    /\ pc = "fr_send"
    /\ LET tcpmsg == RunCat(Runs(pack(Len(QueryWire))), Runs(QueryWire))
       IN  ops' = Append(ops, Op("sendall", CallerStream, None, tcpmsg, <<>>))
    /\ tcpF' = [NoFrame EXCEPT !.sock = CallerStream, !.s = CallerStream, !.count = 2]
    /\ pc' = "fr_read_len"
    /\ UNCHANGED <<call, now, socks, net, udpF, tlsF, result>>

\* lines 346-349: the wire goes to from_wire; then the next exchange
PipeDecode ==
    /\ pc = "fr_done"
    /\ ops' = Append(ops, Op("from_wire", CallerStream, None,
                             [wire |-> tcpF.wire, exc |-> tcpF.exc], <<>>))
    /\ pc' = IF Cardinality({i \in DOMAIN ops : ops[i].op = "sendall"}) < Len(call.replies)
             THEN "fr_send" ELSE "done"
    /\ UNCHANGED <<call, now, socks, net, udpF, tcpF, tlsF, result>>

PipeNext ==
    \/ PipeSend
    \/ FrReadLen
    \/ FrReadWire
    \/ PipeDecode

PipeSpec == PipeInit /\ [][PipeNext]_vars

(***************************************************************************)
(* _timeout and _source_tuple on their own: one call of one of them, with  *)
(* arguments of a bounded range, at some time of the clock.                *)
(***************************************************************************)
\* the latest time, of the clock and of the arguments
MaxTime == 4

OtherFamily == "AF_UNIX"

PureCalls ==
    {[api |-> "_timeout", expiration |-> e, now |-> n,
      af |-> "AF_INET", address |-> NoAddr, port |-> 0] :
        e \in {None} \cup 0..MaxTime, n \in {None} \cup 0..MaxTime}
    \cup {[api |-> "_source_tuple", expiration |-> None, now |-> None,
           af |-> f, address |-> a, port |-> p] :
        f \in {"AF_INET", "AF_INET6", OtherFamily}, a \in {NoAddr, SourceAddr},
        p \in {0, SourcePort}}

PureInit ==
    /\ call \in PureCalls
    /\ now \in 1..MaxTime
    /\ pc = "start"
    /\ socks = <<>>
    /\ ops = <<>>
    /\ net = [latency |-> 0, inbuf |-> <<>>, closed |-> FALSE]
    /\ udpF = NoFrame
    /\ tcpF = NoFrame
    /\ tlsF = NoTls
    /\ result = NoResult

\* _timeout(expiration, now), lines 57-63; now = None is the default
ApplyTimeout ==
    /\ pc = "start" /\ call.api = "_timeout"
    /\ result' = [exc |-> "none", r |-> timeout_(call.expiration, call.now, now), tcp |-> FALSE]
    /\ pc' = "done"
    /\ UNCHANGED <<call, now, socks, ops, net, udpF, tcpF, tlsF>>

\* _source_tuple(af, address, port), lines 41-54
ApplySourceTuple ==
    /\ pc = "start" /\ call.api = "_source_tuple"
    /\ LET st == source_tuple(call.af, call.address, call.port)
       IN  result' = [exc |-> st.exc, r |-> st.t, tcp |-> FALSE]
    /\ pc' = "done"
    /\ UNCHANGED <<call, now, socks, ops, net, udpF, tcpF, tlsF>>

PureNext ==
    \/ ApplyTimeout
    \/ ApplySourceTuple

PureSpec == PureInit /\ [][PureNext]_vars

(***************************************************************************)
(* What the log says.                                                      *)
(***************************************************************************)
Indices(op) == {i \in DOMAIN ops : ops[i].op = op}

\* how often the socket was closed
Closes(id) == Cardinality({i \in Indices("close") : ops[i].sock = id})

CoreSocks == {id \in DOMAIN socks : socks[id].owner = "core"}

\* the socket operations on stream sockets, and the entries into tcp
TcpActivity ==
    {i \in DOMAIN ops : \/ ops[i].op \in {"tcp", "sendall", "recv", "getpeername"}
                        \/ (ops[i].op = "make_socket" /\ socks[ops[i].sock].type = "STREAM")}

\* the wires udp decoded that have the truncation bit
TruncatedUdp ==
    {i \in Indices("from_wire") : /\ socks[ops[i].sock].type = "DGRAM"
                                  /\ Len(ops[i].data) >= HeaderLen
                                  /\ ops[i].data[2] = FlagTC}

(***************************************************************************)
(* C1: a socket that udp, tcp or tls opened itself is never closed twice,  *)
(* and when the call is over, however it ended, it was closed once; for    *)
(* tls too, which hands its socket to tcp.                                 *)
(***************************************************************************)
C1_SelfOpenedClosedOnce ==
    call.api \in {"udp", "tcp", "tls"} =>
        \A id \in CoreSocks :
            /\ Closes(id) <= 1
            /\ pc = "done" => Closes(id) = 1

\* tls made a socket, the peer closed the stream early, and the call is over
C1_Witness ==
    /\ pc = "done" /\ call.api = "tls" /\ result.exc = "EOFError"
    /\ \E id \in CoreSocks : Closes(id) = 1

(***************************************************************************)
(* C2: a socket of the caller is never closed, whatever the call and       *)
(* however it ends.                                                        *)
(***************************************************************************)
C2_CallerSocketNeverClosed ==
    Closes(CallerDgram) = 0 /\ Closes(CallerStream) = 0

\* tcp was given a socket that is not connected, and failed on getpeername
C2_Witness ==
    /\ pc = "done" /\ call.sock = CallerStream /\ ~call.connected
    /\ result.exc = "OSError" /\ Indices("getpeername") # {}

(***************************************************************************)
(* C3: udp called with a socket of the caller sends the query once on that *)
(* socket, to the destination, before the call ends.                       *)
(***************************************************************************)
C3_SendsOnCallerSocket ==
    (call.api = "udp" /\ call.sock = CallerDgram /\ pc = "done") =>
        /\ Cardinality(Indices("sendto")) = 1
        /\ \A i \in Indices("sendto") :
              /\ ops[i].sock = CallerDgram
              /\ ops[i].peer[1] = call.where
              /\ ops[i].peer[2] = DefaultPort(call.api)

(***************************************************************************)
(* C4: with a deadline, every sendto, recvfrom, sendall and recv is passed *)
(* max(expiration - now, 0) as its timeout, now being the time of the call.*)
(***************************************************************************)
C4_EveryOperationGetsRemaining ==
    /\ udpF.expiration # None =>
          \A i \in Indices("sendto") \cup Indices("recvfrom") :
              ops[i].tmo = Max(udpF.expiration - ops[i].at, 0)
    /\ tcpF.expiration # None =>
          \A i \in Indices("sendall") \cup Indices("recv") :
              ops[i].tmo = Max(tcpF.expiration - ops[i].at, 0)

(***************************************************************************)
(* C5: the socket tls opens when it is given a context is opened under     *)
(* that context.                                                           *)
(***************************************************************************)
C5_SuppliedContextUsed ==
    (call.api = "tls" /\ call.ssl_context # NoCtx) =>
        \A id \in CoreSocks : socks[id].ssl_context = call.ssl_context

(***************************************************************************)
(* C6: the socket tls opens when it is given no context is opened under a  *)
(* default context that checks the host name if and only if a host name    *)
(* was given, and that host name is passed on.                             *)
(***************************************************************************)
C6_DefaultContextChecksGivenHost ==
    (call.api = "tls" /\ call.ssl_context = NoCtx) =>
        \A id \in CoreSocks :
            /\ socks[id].ssl_context.kind = "default"
            /\ socks[id].ssl_context.check_hostname = (call.server_hostname # NoHost)
            /\ socks[id].server_hostname = call.server_hostname

\* no context and no host name: the socket is there, and nothing is checked
C6_Witness ==
    /\ call.api = "tls" /\ call.ssl_context = NoCtx /\ call.server_hostname = NoHost
    /\ \E id \in CoreSocks : ~socks[id].ssl_context.check_hostname

(***************************************************************************)
(* C7: udp_with_fallback enters tcp once, after the truncated reply, with  *)
(* the query and the whole timeout, when the reply udp accepted has the    *)
(* truncation bit, and returns (reply of tcp, True); with a clean reply it *)
(* never enters tcp and returns (reply of udp, False).                     *)
(***************************************************************************)
C7_FallbackOnTruncation ==
    (call.api = "udp_with_fallback" /\ pc = "done") =>
        IF TruncatedUdp # {}
        THEN /\ Cardinality(Indices("tcp")) = 1
             /\ \A i \in Indices("tcp") :
                   /\ ops[i].tmo = call.timeout
                   /\ ops[i].data = QueryWire
                   /\ \A j \in TruncatedUdp : j < i
             /\ result.exc = tcpF.exc
             /\ result.exc = "none" => result.tcp /\ result.r = tcpF.r
        ELSE /\ TcpActivity = {}
             /\ result.exc = udpF.exc
             /\ result.exc = "none" => ~result.tcp /\ result.r = udpF.r

\* the reply of udp was truncated, time has passed, and tcp brought a reply
C7_Witness ==
    /\ call.api = "udp_with_fallback" /\ pc = "done" /\ call.timeout = SomeTimeout
    /\ TruncatedUdp # {} /\ result.exc = "none" /\ result.tcp
    /\ \E i \in Indices("tcp") : ops[i].at > StartTime

(***************************************************************************)
(* C8: in udp_with_fallback nothing of tcp happens unless udp ended with   *)
(* Truncated: every other failure of udp is the failure of the call; and   *)
(* udp is entered once, a failure of tcp being the failure of the call.    *)
(***************************************************************************)
C8_OnlyTruncationFallsBack ==
    call.api = "udp_with_fallback" =>
        /\ udpF.exc # "Truncated" => TcpActivity = {}
        /\ (pc = "done" /\ udpF.exc \notin {"none", "Truncated"}) => result.exc = udpF.exc
        /\ Cardinality(Indices("udp")) <= 1
        /\ (pc = "done" /\ tcpF.exc # "none") => result.exc = tcpF.exc

\* udp failed on a reply that does not match, and the call is over
C8_Witness ==
    /\ call.api = "udp_with_fallback" /\ pc = "done"
    /\ result.exc = "BadResponse" /\ udpF.exc = "BadResponse"
    /\ Indices("sendto") # {}

\* the datagrams received
Datagrams == {i \in Indices("recvfrom") : ops[i].peer # <<>>}

\* a source receive_udp is to accept: the destination itself, or any address
\* on the port of a multicast destination
Acceptable(from_address, destination) ==
    \/ from_address = destination
    \/ (is_multicast(destination[1]) /\ from_address[2] = destination[2])

(***************************************************************************)
(* C9: receive_udp decodes a datagram only if it comes from the            *)
(* destination, or the destination is a multicast group and the ports are  *)
(* the same; a datagram from elsewhere is passed over if ignore_unexpected *)
(* and raises UnexpectedSource if not; what is decoded is the first        *)
(* datagram that may be.                                                   *)
(***************************************************************************)
C9_FirstAcceptableDecoded ==
    /\ \A i \in Indices("from_wire") :
          socks[ops[i].sock].type = "DGRAM" =>
              /\ Acceptable(ops[i].peer, udpF.destination)
              /\ ops[i - 1].op = "recvfrom" /\ ops[i - 1].peer = ops[i].peer
              /\ \A j \in Datagrams : j < i - 1 => ~Acceptable(ops[j].peer, udpF.destination)
    /\ \A i \in Datagrams :
          ~Acceptable(ops[i].peer, udpF.destination) =>
              IF call.ignore_unexpected
              THEN /\ i < Len(ops) => ops[i + 1].op = "recvfrom"
                   /\ i = Len(ops) => pc = "udp_recv"
              ELSE /\ udpF.exc = "UnexpectedSource"
                   /\ \A j \in Datagrams : j <= i
    /\ udpF.exc = "UnexpectedSource" =>
          \E i \in Datagrams : /\ ~Acceptable(ops[i].peer, udpF.destination)
                               /\ \A j \in Datagrams : j <= i

(***************************************************************************)
(* C10: with a multicast destination on port P, a datagram from any        *)
(* address on port P is accepted: it is the one decoded.                   *)
(***************************************************************************)
C10_MulticastAcceptsPort ==
    \A i \in Datagrams :
        (is_multicast(udpF.destination[1]) /\ ops[i].peer[2] = udpF.destination[2]) =>
            /\ i < Len(ops) => ops[i + 1].op = "from_wire" /\ ops[i + 1].peer = ops[i].peer
            /\ i = Len(ops) => pc = "udp_decode" /\ udpF.from = ops[i].peer

(***************************************************************************)
(* C11: what send_tcp writes is the length of the message in two bytes,    *)
(* the high byte first, and then the message, and nothing more; and        *)
(* receive_tcp, reading two bytes and then as many as they announce, gets  *)
(* the message back as it was sent, for messages of 0, 1 and 65535 bytes   *)
(* and however the stream hands the bytes out.                             *)
(***************************************************************************)
C11_FramingRoundTrip ==
    LET L == RunLen(call.what)
    IN  /\ \A i \in Indices("sendall") :
              /\ RunLen(ops[i].data) = L + 2
              /\ RunAt(ops[i].data, 1) * 256 + RunAt(ops[i].data, 2) = L
              /\ RunDrop(ops[i].data, 2) = call.what
        /\ pc = "fr_read_len" => tcpF.count + RunLen(tcpF.buf) = 2
        /\ pc = "fr_read_wire" => tcpF.count + RunLen(tcpF.buf) = L
        /\ pc = "fr_done" =>
              /\ tcpF.exc = "none"
              /\ tcpF.wire = call.what
              /\ net.inbuf = <<>>

\* a message of 65535 bytes has come back whole out of reads that were short
C11_Witness ==
    /\ pc = "fr_done" /\ RunLen(call.what) = MaxMessage /\ net.short
    /\ tcpF.exc = "none" /\ tcpF.wire = call.what

RECURSIVE RecvBytes(_)
\* the bytes the first i operations of the log have read from the stream
RecvBytes(i) ==
    IF i = 0 THEN <<>>
    ELSE RecvBytes(i - 1) \o (IF ops[i].op = "recv" THEN ops[i].data ELSE <<>>)

(***************************************************************************)
(* C12: _read_exactly returns the count of bytes it was asked for or       *)
(* fails: the wire receive_tcp decodes is as long as the two bytes before  *)
(* it announce; a recv that returns nothing before that is the last one,   *)
(* and raises EOFError, which is not Timeout; and tcp fails with EOFError  *)
(* when the peer sends one byte of the length and closes.                  *)
(***************************************************************************)
C12_ReadExactlyOrFail ==
    LET got == RecvBytes(Len(ops))
        recvs == Indices("recv")
    IN  /\ pc = "tcp_read_wire" => Len(got) = 2 + Len(tcpF.buf)
        /\ pc = "tcp_decode" =>
              /\ Len(got) >= 2
              /\ Len(tcpF.wire) = unpack(SubSeq(got, 1, 2))
              /\ tcpF.wire = SubSeq(got, 3, Len(got))
        /\ \A i \in recvs :
              (ops[i].data = <<>> /\ pc # "blocked") =>
                  /\ \A j \in recvs : j <= i
                  /\ pc \notin {"tcp_read_len", "tcp_read_wire", "tcp_decode"}
                  /\ tcpF.exc \in {"EOFError", "Timeout"}
                  /\ tcpF.r = NoMsg
                  /\ (ops[i].tmo = None \/ now < ops[i].at + ops[i].tmo) <=> tcpF.exc = "EOFError"
        /\ tcpF.exc = "EOFError" =>
              /\ net.closed /\ net.inbuf = <<>>
              /\ \E i \in recvs : ops[i].data = <<>>
              /\ pc = "done" => result.exc = "EOFError" /\ result.r = NoMsg
        /\ (call.api = "tcp" /\ pc = "done" /\ Len(got) = 1 /\ net.closed /\ net.inbuf = <<>>) =>
              /\ result.exc \in {"EOFError", "Timeout"}
              /\ call.timeout = None => result.exc = "EOFError"

\* the peer of tcp sent one byte and closed, and the call ended in EOFError
C12_Witness ==
    /\ call.api = "tcp" /\ pc = "done" /\ result.exc = "EOFError"
    /\ Len(RecvBytes(Len(ops))) = 1

\* the wires decoded into a message that is no response to the query
Mismatched ==
    {i \in Indices("from_wire") :
        LET m == from_wire(ops[i].data, socks[ops[i].sock].type = "DGRAM" /\ udpF.raise_on_truncation)
        IN  m.exc = "none" /\ ~is_response(m.r)}

(***************************************************************************)
(* C13: the reply that udp, tcp, tls or udp_with_fallback returns is a     *)
(* response to the query; a wire that decodes into a message that is not   *)
(* ends the exchange with BadResponse, and after it nothing is sent or     *)
(* received and tcp is not entered: the socket is closed and that is all.  *)
(***************************************************************************)
C13_OnlyResponsesReturned ==
    /\ (pc = "done" /\ result.exc = "none") => is_response(result.r)
    /\ udpF.r # NoMsg => is_response(udpF.r)
    /\ tcpF.r # NoMsg => is_response(tcpF.r)
    /\ \A i \in Mismatched :
          /\ IF socks[ops[i].sock].type = "DGRAM"
             THEN udpF.exc = "BadResponse" /\ udpF.r = NoMsg
             ELSE tcpF.exc = "BadResponse" /\ tcpF.r = NoMsg
          /\ \A j \in DOMAIN ops : j > i => ops[j].op = "close"
          /\ pc = "done" => result.exc = "BadResponse" /\ result.r = NoMsg

\* udp read a reply to another query, closed its socket and raised BadResponse
C13_Witness ==
    /\ call.api = "udp" /\ pc = "done" /\ result.exc = "BadResponse"
    /\ Mismatched # {} /\ Indices("close") # {}

(***************************************************************************)
(* C14: tcp given a socket asks it for its peer once, before it sends a    *)
(* byte; if the socket is not connected, tcp fails there with the error of *)
(* getpeername, and nothing is sent or received.                           *)
(***************************************************************************)
C14_PeerAskedBeforeSend ==
    (tcpF.sock # NoSock /\ Indices("tcp") # {} /\ pc # "tcp_open") =>
        /\ Cardinality(Indices("getpeername")) = 1
        /\ \A i \in Indices("getpeername") :
              /\ ops[i].sock = tcpF.sock
              /\ ops[i - 1].op = "tcp"
              /\ \A j \in Indices("sendall") \cup Indices("recv") : i < j
              /\ ~socks[tcpF.sock].connected =>
                    /\ i = Len(ops)
                    /\ tcpF.exc = "OSError"
                    /\ pc = "done" => result.exc = "OSError"

\* udp_with_fallback handed tcp a socket that is not connected
C14_Witness ==
    /\ call.api = "udp_with_fallback" /\ call.tcp_sock = CallerStream /\ ~call.connected
    /\ pc = "done" /\ result.exc = "OSError"
    /\ Indices("getpeername") # {} /\ Indices("sendall") = {}

(***************************************************************************)
(* C15: _timeout(expiration, now) returns max(expiration - now, 0) when    *)
(* there is an expiration, 0 included, now being the argument when one is  *)
(* given, 0 included, and the clock when none is; it returns None only     *)
(* when there is no expiration; and what it returns is never negative.     *)
(***************************************************************************)
C15_RemainingFloorsAtZero ==
    (call.api = "_timeout" /\ pc = "done") =>
        LET n == IF call.now = None THEN now ELSE call.now
        IN  IF call.expiration = None
            THEN result.r = None
            ELSE /\ result.r = Max(call.expiration - n, 0)
                 /\ result.r # None
                 /\ result.r >= 0

(***************************************************************************)
(* C16: an exchange that has its socket sends once on it: udp the wire of  *)
(* the query as it is, tcp the wire behind its length in two bytes; the    *)
(* send comes before every receive, and nothing is sent again, whatever    *)
(* datagrams are passed over; the two bytes of the length are read before  *)
(* any byte of the reply; and with a fallback there are two sends, that of *)
(* udp and then that of tcp.                                               *)
(***************************************************************************)
C16_OneSendBeforeReceive ==
    /\ Cardinality(Indices("sendto")) <= 1
    /\ Cardinality(Indices("sendall")) <= 1
    /\ (udpF.s # NoSock /\ pc # "udp_send") =>
          /\ Cardinality(Indices("sendto")) = 1
          /\ \A i \in Indices("sendto") :
                /\ ops[i].sock = udpF.s
                /\ ops[i].data = QueryWire
                /\ \A j \in Indices("recvfrom") : i < j
    /\ (tcpF.s # NoSock /\ pc # "tcp_send") =>
          /\ Cardinality(Indices("sendall")) = 1
          /\ \A i \in Indices("sendall") :
                /\ ops[i].sock = tcpF.s
                /\ ops[i].data = <<0, Len(QueryWire)>> \o QueryWire
                /\ \A j \in Indices("recv") : i < j
    /\ Indices("recvfrom") # {} => Indices("sendto") # {}
    /\ Indices("recv") # {} => Indices("sendall") # {}
    /\ \A i \in Indices("recv") : Len(RecvBytes(i - 1)) < 2 => Len(RecvBytes(i)) <= 2
    /\ (call.api = "udp_with_fallback" /\ tcpF.s # NoSock /\ pc # "tcp_send") =>
          \A i \in Indices("sendto"), j \in Indices("sendall") : i < j

(***************************************************************************)
(* C17: udp with a timeout comes to an end: it never waits in recvfrom     *)
(* without a timeout for a datagram that does not come, and a recvfrom     *)
(* that brings no datagram ends the loop with Timeout when the time is up, *)
(* also when the datagrams before it were passed over.                     *)
(***************************************************************************)
C17_UdpTerminates ==
    (call.api = "udp" /\ call.timeout # None) =>
        /\ pc # "blocked"
        /\ \A i \in Indices("recvfrom") :
              ops[i].peer = <<>> => udpF.exc = "Timeout" /\ now >= udpF.expiration

(***************************************************************************)
(* C18: for an address family that is neither AF_INET nor AF_INET6, and    *)
(* no source address, NotImplementedError is raised where the source tuple *)
(* is made, which is before a socket is made and before any input or       *)
(* output, whatever the source port, 0 included.                           *)
(***************************************************************************)
C18_UnknownFamilyFailsFirst ==
    (call.api = "_source_tuple" /\ pc = "done"
        /\ call.af \notin {"AF_INET", "AF_INET6"} /\ call.address = NoAddr) =>
            result.exc = "NotImplementedError"

(***************************************************************************)
(* C19: the reply of udp and of tcp has time = received_time - begin_time, *)
(* begin_time being the clock when the exchange was entered, before it     *)
(* made a socket, and received_time the clock when the last read of the    *)
(* reply had returned and the wire went to from_wire; on a clock that does *)
(* not go back that is never negative.                                     *)
(***************************************************************************)
C19_ReplyTime ==
    /\ udpF.r # NoMsg =>
          /\ udpF.r.time = udpF.received_time - udpF.begin_time
          /\ udpF.r.time >= 0
    /\ tcpF.r # NoMsg =>
          /\ tcpF.r.time = tcpF.received_time - tcpF.begin_time
          /\ tcpF.r.time >= 0
    /\ (pc = "done" /\ result.exc = "none") =>
          result.r.time = IF call.api = "udp" \/ (call.api = "udp_with_fallback" /\ ~result.tcp)
                          THEN udpF.received_time - udpF.begin_time
                          ELSE tcpF.received_time - tcpF.begin_time
    /\ \A i \in Indices("udp") :
          /\ udpF.begin_time # None => udpF.begin_time = ops[i].at
          /\ \A j \in Indices("make_socket") : socks[ops[j].sock].type = "DGRAM" => i < j
    /\ \A i \in Indices("tcp") :
          /\ tcpF.begin_time # None => tcpF.begin_time = ops[i].at
          /\ \A j \in Indices("make_socket") :
                (socks[ops[j].sock].type = "STREAM" /\ call.api # "tls") => i < j
    /\ \A i \in Indices("from_wire") :
          /\ ops[i - 1].op \in {"recvfrom", "recv"}
          /\ ops[i].at = ops[i - 1].at + net.latency
          /\ IF socks[ops[i].sock].type = "DGRAM"
             THEN udpF.received_time = ops[i].at
             ELSE tcpF.received_time = ops[i].at

\* tcp returned a reply that took time to come
C19_Witness ==
    /\ call.api = "tcp" /\ pc = "done" /\ result.exc = "none"
    /\ result.r.time > 0 /\ result.r.time = tcpF.received_time - tcpF.begin_time

(***************************************************************************)
(* C20: in udp_with_fallback a datagram that udp accepts and that has the  *)
(* truncation bit makes from_wire raise Truncated, before the reply is     *)
(* matched with the query: tcp is entered whether the reply has the id of  *)
(* the query or another, and a truncated reply never ends in BadResponse.  *)
(***************************************************************************)
C20_TruncationBeforeMatch ==
    call.api = "udp_with_fallback" =>
        /\ \A i \in TruncatedUdp :
              /\ udpF.exc = "Truncated"
              /\ udpF.r = NoMsg
              /\ pc \notin {"udp_finally", "fb_after_udp", "tcp_begin"} =>
                    /\ Indices("tcp") # {}
                    /\ \A j \in Indices("tcp") : i < j
              /\ pc = "done" => result.exc = tcpF.exc
        /\ udpF.exc = "BadResponse" => TruncatedUdp = {}

\* the truncated reply had another id than the query, and tcp brought the reply
C20_Witness ==
    /\ call.api = "udp_with_fallback" /\ pc = "done" /\ result.exc = "none" /\ result.tcp
    /\ \E i \in TruncatedUdp : ops[i].data[1] = OtherId

\* the index in the log of the j-th entry of op
Nth(op, j) == CHOOSE i \in Indices(op) : Cardinality({h \in Indices(op) : h <= i}) = j

(***************************************************************************)
(* C21: _read_exactly asks recv for no more than the bytes still missing,  *)
(* so that receive_tcp takes the two bytes of the length and the bytes     *)
(* they announce off the stream and no more: of exchanges made one after   *)
(* another on one socket, with the replies back to back on the stream,     *)
(* each decodes its own reply, however the stream hands the bytes out.     *)
(***************************************************************************)
C21_EachExchangeItsOwnFrame ==
    LET k == Cardinality(Indices("from_wire"))
        n == Len(call.replies)
    IN  /\ tcpF.count >= 0
        /\ \A j \in 1..k :
              /\ ops[Nth("from_wire", j)].data = [wire |-> call.replies[j], exc |-> "none"]
              /\ Nth("sendall", j) < Nth("from_wire", j)
              /\ j < k => Nth("from_wire", j) < Nth("sendall", j + 1)
        /\ pc \in {"fr_send", "done"} => net.inbuf = Frames(SubSeq(call.replies, k + 1, n))
        /\ pc = "fr_read_len" => tcpF.count + RunLen(tcpF.buf) = 2
        /\ pc = "fr_read_wire" => tcpF.count + RunLen(tcpF.buf) = RunLen(call.replies[k + 1])
        /\ pc = "fr_done" =>
              /\ tcpF.exc = "none"
              /\ tcpF.wire = call.replies[k + 1]
              /\ net.inbuf = Frames(SubSeq(call.replies, k + 2, n))
        /\ pc = "done" => k = n /\ net.inbuf = <<>>

\* two replies that differ were read in short reads, each by its exchange
C21_Witness ==
    /\ call.api = "pipe" /\ pc = "done" /\ net.short
    /\ Len(call.replies) = MaxExchanges /\ call.replies[1] # call.replies[2]
    /\ RunLen(call.replies[1]) > 0 /\ RunLen(call.replies[2]) > 0
    /\ Cardinality(Indices("from_wire")) = MaxExchanges

\* the datagrams receive_udp passed over or refused because of their source
Discarded ==
    {i \in Datagrams : ~udp_accepts(socks[ops[i].sock].af, ops[i].peer, udpF.destination)}

\* the wires udp decoded
DecodedUdp == {i \in Indices("from_wire") : socks[ops[i].sock].type = "DGRAM"}

(***************************************************************************)
(* C22: a datagram that receive_udp passes over because of its source does *)
(* not go to from_wire: malformed or with the truncation bit, it neither   *)
(* fails the exchange nor starts tcp when unexpected sources are ignored;  *)
(* the one datagram that is accepted is decoded, and it is decoded once.   *)
(***************************************************************************)
C22_DiscardedNeverDecoded ==
    /\ Cardinality(DecodedUdp) <= 1
    /\ \A i \in DecodedUdp :
          /\ ops[i - 1].op = "recvfrom" /\ ops[i - 1].peer = ops[i].peer
          /\ i - 1 \notin Discarded
          /\ \A j \in Datagrams : j < i - 1 => j \in Discarded
    /\ \A i \in Discarded :
          /\ i < Len(ops) => ops[i + 1].op # "from_wire"
          /\ i = Len(ops) => pc # "udp_decode"
          /\ (call.ignore_unexpected /\ i = Len(ops)) =>
                pc = "udp_recv" /\ udpF.exc = "none" /\ Indices("tcp") = {}
    /\ udpF.exc \in {"FormError", "Truncated", "BadResponse"} =>
          \E i \in DecodedUdp : reply_exc(ops[i].data, udpF.raise_on_truncation) = udpF.exc
    /\ (call.api = "udp_with_fallback" /\ Indices("tcp") # {}) =>
          \E i \in DecodedUdp : i \in TruncatedUdp /\ i - 1 \notin Discarded

\* udp_with_fallback has just passed over a datagram with the truncation bit
\* that came from elsewhere: nothing was decoded, and it waits for the next
C22_Witness ==
    /\ call.api = "udp_with_fallback" /\ call.ignore_unexpected
    /\ pc = "udp_recv" /\ Len(ops) \in Discarded
    /\ Len(udpF.wire) >= HeaderLen /\ udpF.wire[2] = FlagTC
    /\ udpF.exc = "none" /\ DecodedUdp = {} /\ Indices("tcp") = {}

\* the sockets the call made that are open
OpenCore == {id \in CoreSocks : Closes(id) = 0}

(***************************************************************************)
(* C23: in udp_with_fallback the socket udp made is closed before tcp is   *)
(* entered, before the socket of tcp is made and before a byte is sent on  *)
(* it: the call never has two sockets of its own open.                     *)
(***************************************************************************)
C23_UdpClosedBeforeTcp ==
    /\ Cardinality(OpenCore) <= 1
    /\ call.api = "udp_with_fallback" =>
          \A i \in Indices("make_socket") :
              socks[ops[i].sock].type = "DGRAM" =>
                  \A j \in TcpActivity :
                      \E c \in Indices("close") :
                          ops[c].sock = ops[i].sock /\ i < c /\ c < j

\* the fallback made a socket for udp and then one for tcp, and both are closed
C23_Witness ==
    /\ call.api = "udp_with_fallback" /\ pc = "done" /\ result.exc = "none" /\ result.tcp
    /\ Cardinality(CoreSocks) = 2 /\ OpenCore = {}
    /\ \E i \in Indices("close"), j \in Indices("make_socket") :
          i < j /\ socks[ops[i].sock].type = "DGRAM" /\ socks[ops[j].sock].type = "STREAM"

====
